---------------------------- MODULE Spec2Model ----------------------------
(***************************************************************************)
(* The reversible interrupt-driven clock of thinety/te328, in its two      *)
(* variants: the seconds clock (src/src/main.c, 8-bit `time`, Timer1) and  *)
(* the milliseconds clock (src/unnamed/part_002, 16-bit `time`, Timer0).   *)
(*                                                                         *)
(* The state is the program's volatile globals, the registers the program  *)
(* reads and writes (PINC, TCCRxB, TCNTx, the two interrupt flags, PORTB,  *)
(* PORTD) and the position of the main loop.  An interrupt handler runs    *)
(* with interrupts disabled, so each handler is one action; SpecAtomic     *)
(* takes the handlers statement by statement, with the I flag, to check    *)
(* that.  The main loop is one action per access to volatile data or to a  *)
(* port.  The ADC sampler of the same repository (second program of        *)
(* src/src/main.c, src/unnamed/part_000) and its serial sampler            *)
(* (src/old/t5.c) have their own variables and their own specifications,   *)
(* SpecAdc and SpecSer.                                                    *)
(***************************************************************************)
EXTENDS Integers, Sequences, FiniteSets, TLC

VARIABLES
    variant,                        \* "s": seconds clock, "ms": milliseconds clock
    loFirst,                        \* the build loads the low byte of a 16-bit `time` first
    time, step,                     \* volatile counters
    clock_running, clock_ascending, \* volatile flags
    start_stop_button_was_pressed,
    swap_mode_button_was_pressed,
    reset_button_was_pressed,
    PINC,                           \* the set of port C bits that read 1
    PCIF,                           \* pin-change interrupt 1 requested
    TCCRB,                          \* TCCR1B / TCCR0B
    TCNT,                           \* TCNT1 / TCNT0
    OCF,                            \* compare-match A interrupt requested
    cmBlock,                        \* TCNT written, no timer clock since
    pc, half, raw, current_time,    \* main loop: position, first byte read, value read
    PORTB, PORTD,
    acts,                           \* history: actions performed for each button's current press
    lastEdges,                      \* history: the edges the last run of the pin-change handler saw
    lastRead,                       \* history: the buttons it read as pressed
    lastTick,                       \* history: the last run of the tick handler
    readHeld,                       \* history: values of `time` during the current read
    swapFrom, swapN,                \* history: consecutive direction swaps
    sinceSwap,                      \* history: timer clocks since the last swap
    I,                              \* SREG: global interrupt enable
    tpos, ppos,                     \* statement reached in the tick / pin-change handler
    acc, pressed,                   \* handler locals: the sum, the three is_pressed
    tEntry, pEntry,                 \* history: the clock when each handler was entered
    adcProg,                        \* sampler build: "sw" (src/src/main.c), "auto" (part_000)
    OCF0A, ADSC, ADIF, ADC,         \* sampler: Timer0 compare flag, ADC start, ADC flag, ADC data
    samples, current_sample,        \* sampler: volatile globals
    nconv, adcSeed,                 \* history: conversions completed; the signal sampled
    has_new_sample, sample,         \* serial sampler (src/old/t5.c): volatile globals
    should_transmit,
    spc,                            \* serial sampler: position of the main loop
    cur_sample, shalf,              \* its local current_sample, the first byte loaded
    UDR0, RXC,                      \* USART: byte received, receive-complete flag
    line,                           \* the last line written to the USART
    sheld,                          \* history: values of `sample` during the current read
    sentNow, sentPrev,              \* history: the conversion read for this line, for the line before
    stopped, afterStop              \* history: '0' was the last command; lines started since

progVars == <<variant, loFirst, time, step, clock_running, clock_ascending,
              start_stop_button_was_pressed, swap_mode_button_was_pressed,
              reset_button_was_pressed, PINC, PCIF, TCCRB, TCNT, OCF, cmBlock>>
mainVars == <<pc, half, raw, current_time, PORTB, PORTD>>
histVars == <<acts, lastEdges, lastRead, lastTick, readHeld, swapFrom, swapN,
              sinceSwap>>
isrVars == <<I, tpos, ppos, acc, pressed, tEntry, pEntry>>
adcVars == <<adcProg, OCF0A, ADSC, ADIF, ADC, samples, current_sample, nconv,
             adcSeed>>
\* what the clock's handlers, taken as single actions, leave alone
adcRegs == <<adcProg, OCF0A, ADSC, ADIF, ADC, samples, current_sample>>
serProg == <<has_new_sample, sample, should_transmit, spc, cur_sample, shalf,
             UDR0, RXC, line>>
serHist == <<sheld, sentNow, sentPrev, stopped, afterStop>>
serVars == <<serProg, serHist>>
otherVars == <<isrVars, adcVars, serVars>>
vars == <<progVars, mainVars, histVars, otherVars>>

Variants == {"s", "ms"}

(***************************************************************************)
(* Bounds of the model.                                                    *)
(***************************************************************************)
\* The hardware counter is followed at the values within Near of 0, of TOP,
\* of TOP+1 and of the register's maximum; the timer moves between them.
Near == 1
\* Compare matches are generated while `time` is within MaxDrift of one of
\* the values of StartTimes.
MaxDrift == 2

(***************************************************************************)
(* Program constants.                                                      *)
(***************************************************************************)
TIMER_TOP(v) == IF v = "s" THEN 15625 - 1 ELSE 125 - 1
\* the value `time` wraps at: 60 seconds, 60000 milliseconds
LIMIT(v) == IF v = "s" THEN 60 ELSE 60000
\* width of `time` and `step`: uint8_t, uint16_t
TimeBits(v) == IF v = "s" THEN 8 ELSE 16
\* width of the timer's counter: Timer1 is 16 bits wide, Timer0 is 8
TimerBits(v) == IF v = "s" THEN 16 ELSE 8
TimeMax(v) == 2^TimeBits(v) - 1
TimerMax(v) == 2^TimerBits(v) - 1
\* `step = -1` stored in the unsigned type
MinusOne(v) == TimeMax(v)
\* TCCR1B = 0b00001011, TCCR0B = 0b00000010
TCCRB_INIT(v) == IF v = "s" THEN 11 ELSE 2
\* the bits the start/stop action clears and sets: (1<<1)|(1<<0), 1<<1
CS_BITS(v) == IF v = "s" THEN {0, 1} ELSE {1}

Bit(x, i) == (x \div 2^i) % 2
SetOf(x) == {i \in 0..7 : Bit(x, i) = 1}
RECURSIVE ValueOf(_)
ValueOf(S) == IF S = {} THEN 0
              ELSE LET i == CHOOSE j \in S : TRUE IN 2^i + ValueOf(S \ {i})
\* x &= ~mask and x |= mask on an 8-bit register
ClearBits(x, S) == ValueOf(SetOf(x) \ S)
SetBits(x, S) == ValueOf(SetOf(x) \cup S)

(***************************************************************************)
(* The tick handler: ISR(TIMER1_COMPA_vect) / ISR(TIMER0_COMPA_vect).      *)
(***************************************************************************)
\* Mutant: the sum is not reduced to the width of `time`.
AddStepWide(v, t, s) == t + s
\* Mutant: the ascending wrap compares with LIMIT + 1.
WrapUpLate(v, t) == IF t = LIMIT(v) + 1 THEN 0 ELSE t
\* Mutant: the descending wrap restarts at LIMIT.
WrapDownOff(v, t) == IF t = TimeMax(v) THEN LIMIT(v) ELSE t

\* time += step, in the unsigned type
AddStep(v, t, s) == (t + s) % 2^TimeBits(v)
\* if (time == 60) time = 0;
WrapUp(v, t) == IF t = LIMIT(v) THEN 0 ELSE t
\* if (time == 255) time = 59;
WrapDown(v, t) == IF t = TimeMax(v) THEN LIMIT(v) - 1 ELSE t
TickTime(v, t, s) == WrapDown(v, WrapUp(v, AddStep(v, t, s)))

\* Mutant: the handler sets the direction back to ascending when `time`
\* wraps.
TickResetsStep ==
    /\ OCF
    /\ OCF' = FALSE
    /\ time' = TickTime(variant, time, step)
    /\ step' = IF time' = LIMIT(variant) - 1 THEN 1 ELSE step
    /\ UNCHANGED <<variant, loFirst, clock_running, clock_ascending,
                   start_stop_button_was_pressed, swap_mode_button_was_pressed,
                   reset_button_was_pressed, PINC, PCIF, TCCRB, TCNT, cmBlock>>
    /\ UNCHANGED mainVars

TIMER_COMPA_vect ==
    /\ OCF
    /\ OCF' = FALSE
    /\ time' = TickTime(variant, time, step)
    /\ UNCHANGED <<variant, loFirst, step, clock_running, clock_ascending,
                   start_stop_button_was_pressed, swap_mode_button_was_pressed,
                   reset_button_was_pressed, PINC, PCIF, TCCRB, TCNT, cmBlock>>
    /\ UNCHANGED mainVars

(***************************************************************************)
(* The pin-change handler: ISR(PCINT1_vect).  The clock's state it works   *)
(* on is a record; the three button actions are applied in program order.  *)
(***************************************************************************)
START_STOP == 0
SWAP_MODE == 1
RESET == 2
Buttons == {START_STOP, SWAP_MODE, RESET}

\* (PINC & 1<<b) == 0
IsPressed(pinc, b) == b \notin pinc
WasPressed == [b \in Buttons |->
                 IF b = START_STOP THEN start_stop_button_was_pressed
                 ELSE IF b = SWAP_MODE THEN swap_mode_button_was_pressed
                 ELSE reset_button_was_pressed]
\* Mutant: the action is triggered by the level, not by the edge.
EdgeLevel(pinc, was, b) == IsPressed(pinc, b)

\* is_pressed && !was_pressed
Edge(pinc, was, b) == IsPressed(pinc, b) /\ ~was[b]
Edges(pinc, was) == {b \in Buttons : Edge(pinc, was, b)}

Clock == [time |-> time, step |-> step, running |-> clock_running,
          ascending |-> clock_ascending, tccrb |-> TCCRB, tcnt |-> TCNT,
          written |-> cmBlock]

\* Mutant: the start clears the counter too.
StartStopClearsCounter(v, c) ==
    IF c.running
    THEN [c EXCEPT !.tccrb = ClearBits(c.tccrb, CS_BITS(v)), !.running = FALSE]
    ELSE [c EXCEPT !.tccrb = SetBits(c.tccrb, CS_BITS(v)), !.running = TRUE,
                   !.tcnt = 0, !.written = TRUE]

\* Mutant: the start sets only bit 1 of the control register.
StartStopOneBit(v, c) ==
    IF c.running
    THEN [c EXCEPT !.tccrb = ClearBits(c.tccrb, CS_BITS(v)), !.running = FALSE]
    ELSE [c EXCEPT !.tccrb = SetBits(c.tccrb, {1}), !.running = TRUE]

\* if (clock_running) { TCCRxB &= ~CS; clock_running = false; }
\* else { TCCRxB |= CS; clock_running = true; }
StartStop(v, c) ==
    IF c.running
    THEN [c EXCEPT !.tccrb = ClearBits(c.tccrb, CS_BITS(v)), !.running = FALSE]
    ELSE [c EXCEPT !.tccrb = SetBits(c.tccrb, CS_BITS(v)), !.running = TRUE]

\* Mutant: the counter is mirrored in the register's range, not in [0, TOP].
RemapFromMax(v, n) == TimerMax(v) - n

\* TCNT = TIMER_TOP - TCNT, in the counter's unsigned type
Remap(v, n) == (TIMER_TOP(v) - n + 2^TimerBits(v)) % 2^TimerBits(v)

\* Mutant: the counter is remapped only when the clock turns to descending.
SwapModeOneWay(v, c) ==
    IF c.ascending
    THEN [c EXCEPT !.tcnt = (TIMER_TOP(v) - c.tcnt + 2^TimerBits(v)) % 2^TimerBits(v),
                   !.written = TRUE, !.step = MinusOne(v), !.ascending = FALSE]
    ELSE [c EXCEPT !.step = 1, !.ascending = TRUE]

\* Mutant: turning back to ascending does not restore step = 1.
SwapModeKeepsStep(v, c) ==
    IF c.ascending
    THEN [c EXCEPT !.tcnt = (TIMER_TOP(v) - c.tcnt + 2^TimerBits(v)) % 2^TimerBits(v),
                   !.written = TRUE, !.step = MinusOne(v), !.ascending = FALSE]
    ELSE [c EXCEPT !.tcnt = (TIMER_TOP(v) - c.tcnt + 2^TimerBits(v)) % 2^TimerBits(v),
                   !.written = TRUE, !.ascending = TRUE]

SwapMode(v, c) ==
    IF c.ascending
    THEN [c EXCEPT !.tcnt = Remap(v, c.tcnt), !.written = TRUE,
                   !.step = MinusOne(v), !.ascending = FALSE]
    ELSE [c EXCEPT !.tcnt = Remap(v, c.tcnt), !.written = TRUE,
                   !.step = 1, !.ascending = TRUE]

Reset(v, c) == [c EXCEPT !.tcnt = 0, !.written = TRUE, !.time = 0]

\* Mutant: the three blocks are chained by else, the first edge wins.
HandleFirstOnly(v, e, c) ==
    IF START_STOP \in e
    THEN IF c.running
         THEN [c EXCEPT !.tccrb = ClearBits(c.tccrb, CS_BITS(v)), !.running = FALSE]
         ELSE [c EXCEPT !.tccrb = SetBits(c.tccrb, CS_BITS(v)), !.running = TRUE]
    ELSE IF SWAP_MODE \in e
    THEN [c EXCEPT !.tcnt = (TIMER_TOP(v) - c.tcnt + 2^TimerBits(v)) % 2^TimerBits(v),
                   !.written = TRUE,
                   !.step = IF c.ascending THEN MinusOne(v) ELSE 1,
                   !.ascending = ~c.ascending]
    ELSE IF RESET \in e
    THEN [c EXCEPT !.tcnt = 0, !.written = TRUE, !.time = 0]
    ELSE c

\* Mutant: the reset block comes before the swap block.
HandleResetFirst(v, e, c) ==
    LET c1 == IF START_STOP \in e THEN StartStop(v, c) ELSE c
        c2 == IF RESET \in e THEN [c1 EXCEPT !.tcnt = 0, !.written = TRUE, !.time = 0] ELSE c1
    IN  IF SWAP_MODE \in e
        THEN [c2 EXCEPT !.tcnt = (TIMER_TOP(v) - c2.tcnt + 2^TimerBits(v)) % 2^TimerBits(v),
                        !.written = TRUE,
                        !.step = IF c2.ascending THEN MinusOne(v) ELSE 1,
                        !.ascending = ~c2.ascending]
        ELSE c2

\* the three if-blocks of the handler, for the set e of buttons with an edge
Handle(v, e, c) ==
    LET c1 == IF START_STOP \in e THEN StartStop(v, c) ELSE c
        c2 == IF SWAP_MODE \in e THEN SwapMode(v, c1) ELSE c1
    IN  IF RESET \in e THEN Reset(v, c2) ELSE c2

\* Mutant: the snapshot is not updated.
SnapshotStale(pinc, was, b) == was[b]

\* was_pressed = is_pressed, for the three buttons
Snapshot(pinc, was, b) == IsPressed(pinc, b)

PCINT1_vect ==
    /\ PCIF
    /\ PCIF' = FALSE
    /\ LET c == Handle(variant, Edges(PINC, WasPressed), Clock)
       IN  /\ time' = c.time
           /\ step' = c.step
           /\ clock_running' = c.running
           /\ clock_ascending' = c.ascending
           /\ TCCRB' = c.tccrb
           /\ TCNT' = c.tcnt
           /\ cmBlock' = c.written
    /\ start_stop_button_was_pressed' = Snapshot(PINC, WasPressed, START_STOP)
    /\ swap_mode_button_was_pressed' = Snapshot(PINC, WasPressed, SWAP_MODE)
    /\ reset_button_was_pressed' = Snapshot(PINC, WasPressed, RESET)
    /\ UNCHANGED <<variant, loFirst, PINC, OCF>>
    /\ UNCHANGED mainVars

(***************************************************************************)
(* The main loop: read `time`, split it in two digits, write the ports.    *)
(* An 8-bit `time` is read by one load.  A 16-bit `time` is read by two    *)
(* loads, in the order the build chose, with interrupts enabled.           *)
(***************************************************************************)
digits == <<63, 6, 91, 79, 102, 109, 125, 7, 127, 103>>
Digit(i) == digits[i + 1]

LowByte(x) == x % 256
HighByte(x) == x \div 256
\* the seconds shown: `time`, or `time / 1000`, stored in a uint8_t
Shown(v, x) == IF v = "s" THEN x % 256 ELSE (x \div 1000) % 256
\* Mutant: the tens digit is taken modulo 10 too.
TensAsOnes(d) == d % 10

\* time_digit_0 = current_time % 10, time_digit_1 = current_time / 10
Ones(d) == d % 10
Tens(d) == d \div 10

MainRead ==
    /\ pc = "read"
    /\ IF variant = "s"
       THEN /\ raw' = time
            /\ current_time' = Shown(variant, time)
            /\ pc' = "portb"
            /\ UNCHANGED half
       ELSE /\ half' = IF loFirst THEN LowByte(time) ELSE HighByte(time)
            /\ pc' = "read2"
            /\ UNCHANGED <<raw, current_time>>
    /\ UNCHANGED <<PORTB, PORTD>>
    /\ UNCHANGED progVars

MainRead2 ==
    /\ pc = "read2"
    /\ raw' = IF loFirst THEN 256 * HighByte(time) + half
                         ELSE 256 * half + LowByte(time)
    /\ current_time' = Shown(variant, raw')
    /\ pc' = "portb"
    /\ UNCHANGED <<half, PORTB, PORTD>>
    /\ UNCHANGED progVars

MainPortB ==
    /\ pc = "portb"
    /\ PORTB' = Digit(Ones(current_time))
    /\ pc' = "portd"
    /\ UNCHANGED <<half, raw, current_time, PORTD>>
    /\ UNCHANGED progVars

MainPortD ==
    /\ pc = "portd"
    /\ PORTD' = Digit(Tens(current_time))
    /\ pc' = "read"
    /\ UNCHANGED <<half, raw, current_time, PORTB>>
    /\ UNCHANGED progVars

(***************************************************************************)
(* The hardware the handlers answer to.                                    *)
(***************************************************************************)
\* A level change on PC0..PC2 (PCMSK1 = 0b00000111) requests the interrupt.
PinChange(b) ==
    /\ PINC' = IF b \in PINC THEN PINC \ {b} ELSE PINC \cup {b}
    /\ PCIF' = TRUE
    /\ UNCHANGED <<variant, loFirst, time, step, clock_running, clock_ascending,
                   start_stop_button_was_pressed, swap_mode_button_was_pressed,
                   reset_button_was_pressed, TCCRB, TCNT, OCF, cmBlock>>
    /\ UNCHANGED mainVars

\* The timer is clocked while its clock-select bits CS2:0 are not all zero.
TimerOn == TCCRB % 8 # 0

Points(v) == (0 .. Near) \cup (TIMER_TOP(v) - Near .. TIMER_TOP(v))
             \cup (TIMER_TOP(v) + 1 .. TIMER_TOP(v) + 1 + Near)
             \cup (TimerMax(v) - Near .. TimerMax(v))

\* The cyclic distance between two values of `time`.
Dist(v, a, b) == LET d == (a - b + LIMIT(v)) % LIMIT(v)
                 IN  IF d <= LIMIT(v) - d THEN d ELSE LIMIT(v) - d
StartTimes(v) == IF v = "s" THEN {0, 7} ELSE {0, 255, 7000, 59903}
Followed(v, t) == \E s \in StartTimes(v) : Dist(v, t, s) < MaxDrift

\* One timer clock that reaches no compare match and no overflow.
TimerStep ==
    /\ TimerOn
    /\ TCNT < TimerMax(variant)
    /\ TCNT = TIMER_TOP(variant) => cmBlock
    /\ TCNT' = TCNT + 1
    /\ cmBlock' = FALSE
    /\ UNCHANGED <<variant, loFirst, time, step, clock_running, clock_ascending,
                   start_stop_button_was_pressed, swap_mode_button_was_pressed,
                   reset_button_was_pressed, PINC, PCIF, TCCRB, OCF>>
    /\ UNCHANGED mainVars

\* One or more timer clocks that reach no compare match: the counter moves
\* up to a later value.  A compare match in the timer clock that follows a
\* write to TCNT is blocked, so from TOP the counter then runs on to its
\* maximum.
TimerCount ==
    /\ TimerOn
    /\ TCNT = TIMER_TOP(variant) => cmBlock
    /\ \E p \in Points(variant) :
          /\ p > TCNT
          /\ TCNT < TIMER_TOP(variant) => p <= TIMER_TOP(variant)
          /\ TCNT' = p
    /\ cmBlock' = FALSE
    /\ UNCHANGED <<variant, loFirst, time, step, clock_running, clock_ascending,
                   start_stop_button_was_pressed, swap_mode_button_was_pressed,
                   reset_button_was_pressed, PINC, PCIF, TCCRB, OCF>>
    /\ UNCHANGED mainVars

\* CTC mode: the timer clock after the counter equals OCRxA = TIMER_TOP clears
\* the counter and requests the compare-match interrupt (TIMSKx = 0b00000010).
TimerMatch ==
    /\ TimerOn
    /\ TCNT = TIMER_TOP(variant)
    /\ ~cmBlock
    /\ Followed(variant, time)
    /\ TCNT' = 0
    /\ OCF' = TRUE
    /\ UNCHANGED <<variant, loFirst, time, step, clock_running, clock_ascending,
                   start_stop_button_was_pressed, swap_mode_button_was_pressed,
                   reset_button_was_pressed, PINC, PCIF, TCCRB, cmBlock>>
    /\ UNCHANGED mainVars

\* Past TOP the counter wraps at the register's maximum.
TimerOverflow ==
    /\ TimerOn
    /\ TCNT = TimerMax(variant)
    /\ TCNT' = 0
    /\ cmBlock' = FALSE
    /\ UNCHANGED <<variant, loFirst, time, step, clock_running, clock_ascending,
                   start_stop_button_was_pressed, swap_mode_button_was_pressed,
                   reset_button_was_pressed, PINC, PCIF, TCCRB, OCF>>
    /\ UNCHANGED mainVars

(***************************************************************************)
(* Power-on: the globals' initialisers and main() up to sei().             *)
(***************************************************************************)
InitProg ==
    /\ variant \in Variants
    /\ loFirst \in BOOLEAN
    /\ time = 0
    /\ step = 1
    /\ clock_running = TRUE
    /\ clock_ascending = TRUE
    /\ start_stop_button_was_pressed = FALSE
    /\ swap_mode_button_was_pressed = FALSE
    /\ reset_button_was_pressed = FALSE
    /\ PINC = Buttons
    /\ PCIF = FALSE
    /\ TCCRB = TCCRB_INIT(variant)
    /\ TCNT = 0
    /\ OCF = FALSE
    /\ cmBlock = TRUE

InitMain ==
    /\ pc = "read"
    /\ half = 0
    /\ raw = 0
    /\ current_time = 0
    /\ PORTB = 0
    /\ PORTD = 0

NoPress == [b \in Buttons |-> 0]
NoTick == [from |-> 0, step |-> 0, sum |-> 0, to |-> 0]
NoSwap == [tcnt |-> 0, step |-> 0, ascending |-> TRUE]

InitHist ==
    /\ acts = NoPress
    /\ lastEdges = {}
    /\ lastRead = {}
    /\ lastTick = NoTick
    /\ readHeld = {}
    /\ swapFrom = NoSwap
    /\ swapN = 0
    /\ sinceSwap = 0

(***************************************************************************)
(* The ADC sampler: src/src/main.c (second program), where the Timer0      *)
(* handler starts each conversion, and src/unnamed/part_000, where the     *)
(* compare match starts it by auto-trigger.                                *)
(***************************************************************************)
SAMPLES_NUMBER == 20
AdcProgs == {"sw", "auto"}
\* Conversions followed from power-on.
MaxConv == 45
\* The analog input: one of four signals, of which the k-th conversion
\* gives a 10-bit result.
Seeds == 0 .. 3
Sample(s, k) == (256 * s + 37 * k) % 1024

\* Mutant: the index wraps one element late.
NextSampleLate(i) ==
    LET j == (i + 1) % 256 IN IF j = SAMPLES_NUMBER + 1 THEN 0 ELSE j

\* current_sample += 1; if (current_sample == SAMPLES_NUMBER) current_sample = 0;
NextSample(i) ==
    LET j == (i + 1) % 256 IN IF j = SAMPLES_NUMBER THEN 0 ELSE j

\* samples[i] = x; a write past the end leaves the array as it is
Store(a, i, x) == IF i + 1 \in DOMAIN a THEN [a EXCEPT ![i + 1] = x] ELSE a

\* ISR(TIMER0_COMPA_vect): ADCSRA |= 1<<6 in main.c, empty in part_000
TIMER0_COMPA_vect ==
    /\ OCF0A
    /\ OCF0A' = FALSE
    /\ ADSC' = (IF adcProg = "sw" THEN TRUE ELSE ADSC)
    /\ UNCHANGED <<adcProg, ADIF, ADC, samples, current_sample>>

ADC_vect ==
    /\ ADIF
    /\ ADIF' = FALSE
    /\ samples' = Store(samples, current_sample, ADC)
    /\ current_sample' = NextSample(current_sample)
    /\ UNCHANGED <<adcProg, OCF0A, ADSC, ADC>>

\* Timer0 in CTC mode reaches OCR0A once per sampling period, after the
\* previous conversion was stored (a conversion takes 13 ADC clocks of 16
\* CPU cycles, the period is 1000 CPU cycles).  With ADATE set and
\* ADTS = 0b011 the compare match starts the conversion.
Timer0Match ==
    /\ ~OCF0A /\ ~ADSC /\ ~ADIF
    /\ OCF0A' = TRUE
    /\ ADSC' = (adcProg = "auto")
    /\ UNCHANGED <<adcProg, ADIF, ADC, samples, current_sample>>

\* The conversion ends: the result is in ADC, ADSC reads 0, ADIF is set
\* (ADIE = 1 requests the interrupt).
AdcComplete(x) ==
    /\ ADSC
    /\ ADSC' = FALSE
    /\ ADIF' = TRUE
    /\ ADC' = x
    /\ UNCHANGED <<adcProg, OCF0A, samples, current_sample>>

InitSampler ==
    /\ adcProg \in AdcProgs
    /\ adcSeed \in Seeds
    /\ OCF0A = FALSE
    /\ ADSC = FALSE
    /\ ADIF = FALSE
    /\ ADC = 0
    /\ samples = [i \in 1 .. SAMPLES_NUMBER |-> 0]
    /\ current_sample = 0
    /\ nconv = 0

(***************************************************************************)
(* The serial sampler: src/old/t5.c.  The ADC is triggered by the Timer0   *)
(* compare match as in part_000 (ADCSRA = 0b10101100, ADCSRB = 0b00000011, *)
(* empty ISR(TIMER0_COMPA_vect)); its handler keeps the last result, the   *)
(* USART receive handler takes the commands, the main loop sends a line    *)
(* per new sample while transmission is on.                                *)
(***************************************************************************)
\* The bytes received: '0', '1', and two bytes that are no command.
RxBytes == {48, 49, 50, 13}

\* Mutant: a byte that is no command stops the transmission.
DispatchDefaultStops(b, st) == IF b = 49 THEN TRUE ELSE FALSE

\* switch (UDR0) { case '0': false; case '1': true; default: unchanged }
Dispatch(b, st) == IF b = 48 THEN FALSE ELSE IF b = 49 THEN TRUE ELSE st

\* digits[10] = { '0', ..., '9' }
asciiDigits == <<48, 49, 50, 51, 52, 53, 54, 55, 56, 57>>
\* chars[3-i] = digits[current_sample % 10]; current_sample /= 10; four times
Chars(x) == <<asciiDigits[((x \div 1000) % 10) + 1], asciiDigits[((x \div 100) % 10) + 1],
              asciiDigits[((x \div 10) % 10) + 1], asciiDigits[(x % 10) + 1]>>

\* the ISR(ADC_vect) of src/old/t5.c
ADC_vect_t5 ==
    /\ ADIF
    /\ ADIF' = FALSE
    /\ has_new_sample' = TRUE
    /\ sample' = ADC
    /\ UNCHANGED <<adcProg, OCF0A, ADSC, ADC, samples, current_sample>>
    /\ UNCHANGED <<should_transmit, spc, cur_sample, shalf, UDR0, RXC, line>>

\* A byte arrives (RXEN0, RXCIE0 set): it is in UDR0 and the interrupt is
\* requested.
Receive(b) ==
    /\ ~RXC
    /\ UDR0' = b
    /\ RXC' = TRUE
    /\ UNCHANGED <<has_new_sample, sample, should_transmit, spc, cur_sample,
                   shalf, line>>
    /\ UNCHANGED adcRegs

USART_RX_vect ==
    /\ RXC
    /\ RXC' = FALSE
    /\ should_transmit' = Dispatch(UDR0, should_transmit)
    /\ UNCHANGED <<has_new_sample, sample, spc, cur_sample, shalf, UDR0, line>>
    /\ UNCHANGED adcRegs

\* a step of the main loop that only moves to position nxt
SerGoto(pos, nxt) ==
    /\ spc = pos
    /\ spc' = nxt
    /\ UNCHANGED <<has_new_sample, sample, should_transmit, cur_sample, shalf,
                   UDR0, RXC, line>>
    /\ UNCHANGED adcRegs

\* if (!should_transmit) continue;
SerPoll == SerGoto("poll", IF should_transmit THEN "test" ELSE "poll")
\* if (has_new_sample) { ... }
SerTest == SerGoto("test", IF has_new_sample THEN "clear" ELSE "poll")

\* has_new_sample = false;
SerClear ==
    /\ spc = "clear"
    /\ has_new_sample' = FALSE
    /\ spc' = "read"
    /\ UNCHANGED <<sample, should_transmit, cur_sample, shalf, UDR0, RXC, line>>
    /\ UNCHANGED adcRegs

\* uint16_t current_sample = sample: two byte loads, in the order the build
\* chose, with interrupts enabled
SerRead ==
    /\ spc = "read"
    /\ shalf' = IF loFirst THEN LowByte(sample) ELSE HighByte(sample)
    /\ spc' = "read2"
    /\ UNCHANGED <<has_new_sample, sample, should_transmit, cur_sample, UDR0,
                   RXC, line>>
    /\ UNCHANGED adcRegs

SerRead2 ==
    /\ spc = "read2"
    /\ cur_sample' = IF loFirst THEN 256 * HighByte(sample) + shalf
                                ELSE 256 * shalf + LowByte(sample)
    /\ spc' = "send"
    /\ UNCHANGED <<has_new_sample, sample, should_transmit, shalf, UDR0, RXC,
                   line>>
    /\ UNCHANGED adcRegs

\* the two for loops and the line break: the line starts here
SerSend ==
    /\ spc = "send"
    /\ line' = Chars(cur_sample) \o <<13, 10>>
    /\ cur_sample' = cur_sample \div 10000
    /\ spc' = "poll"
    /\ UNCHANGED <<has_new_sample, sample, should_transmit, shalf, UDR0, RXC>>
    /\ UNCHANGED adcRegs

InitSerial ==
    /\ has_new_sample = FALSE
    /\ sample = 0
    /\ should_transmit = FALSE
    /\ spc = "poll"
    /\ cur_sample = 0
    /\ shalf = 0
    /\ UDR0 = 0
    /\ RXC = FALSE
    /\ line = <<>>
    /\ sheld = {}
    /\ sentNow = -1
    /\ sentPrev = -1
    /\ stopped = FALSE
    /\ afterStop = 0

(***************************************************************************)
(* The handlers' statements, for the specification that takes them one by  *)
(* one: no handler is running at power-on, and sei() has set I.            *)
(***************************************************************************)
NoEntry == [time |-> 0, step |-> 1, running |-> TRUE, ascending |-> TRUE,
            tccrb |-> 0, was |-> [b \in Buttons |-> FALSE]]

InitIsr ==
    /\ I = TRUE
    /\ tpos = "idle"
    /\ ppos = "idle"
    /\ acc = 0
    /\ pressed = {}
    /\ tEntry = NoEntry
    /\ pEntry = NoEntry

\* The clock's specifications leave the sampler at power-on.
InitOther == InitIsr /\ InitSampler /\ adcProg = "sw" /\ adcSeed = 0 /\ InitSerial

(***************************************************************************)
(* The clock: the two handlers, the pins and the timer.                    *)
(***************************************************************************)
Init == InitProg /\ loFirst /\ InitMain /\ InitHist /\ InitOther

\* A press starts a new count of the actions performed for it; a release ends it.
Pin ==
    \E b \in Buttons :
        /\ PinChange(b)
        /\ acts' = [acts EXCEPT ![b] = 0]
        /\ UNCHANGED <<lastEdges, lastRead, lastTick, readHeld, swapFrom, swapN, sinceSwap>>
        /\ UNCHANGED otherVars
Count == TimerCount /\ UNCHANGED histVars /\ UNCHANGED otherVars
Match == TimerMatch /\ UNCHANGED histVars /\ UNCHANGED otherVars
Overflow == TimerOverflow /\ UNCHANGED histVars /\ UNCHANGED otherVars
TickIsr == TIMER_COMPA_vect /\ UNCHANGED histVars /\ UNCHANGED otherVars
PinIsr ==
    /\ PCINT1_vect
    /\ lastEdges' = Edges(PINC, WasPressed)
    /\ lastRead' = {b \in Buttons : IsPressed(PINC, b)}
    /\ acts' = [b \in Buttons |-> IF b \in lastEdges' THEN acts[b] + 1 ELSE acts[b]]
    /\ UNCHANGED <<lastTick, readHeld, swapFrom, swapN, sinceSwap>>
    /\ UNCHANGED otherVars

Next == Pin \/ Count \/ Match \/ Overflow \/ TickIsr \/ PinIsr

Spec == Init /\ [][Next]_vars

(***************************************************************************)
(* The tick handler alone, on every value of `time` in [0, LIMIT) and both *)
(* directions.                                                             *)
(***************************************************************************)
InitTickAll ==
    /\ variant \in Variants
    /\ loFirst = TRUE
    /\ time \in 0 .. LIMIT(variant) - 1
    /\ clock_ascending \in BOOLEAN
    /\ step = IF clock_ascending THEN 1 ELSE MinusOne(variant)
    /\ clock_running = TRUE
    /\ start_stop_button_was_pressed = FALSE
    /\ swap_mode_button_was_pressed = FALSE
    /\ reset_button_was_pressed = FALSE
    /\ PINC = Buttons
    /\ PCIF = FALSE
    /\ TCCRB = TCCRB_INIT(variant)
    /\ TCNT = 0
    /\ OCF = TRUE
    /\ cmBlock = FALSE
    /\ InitMain /\ InitHist /\ InitOther

TickOnce ==
    /\ TIMER_COMPA_vect
    /\ lastTick' = [from |-> time, step |-> step,
                    sum |-> AddStep(variant, time, step), to |-> time']
    /\ UNCHANGED <<acts, lastEdges, lastRead, readHeld, swapFrom, swapN, sinceSwap>>
    /\ UNCHANGED otherVars

SpecTick == InitTickAll /\ [][TickOnce]_vars

(***************************************************************************)
(* The swap-direction button alone, on every value of the hardware counter *)
(* in [0, TOP] and both directions, with the timer stopped.                *)
(***************************************************************************)
InitSwap ==
    /\ variant \in Variants
    /\ loFirst = TRUE
    /\ time = 0
    /\ clock_ascending \in BOOLEAN
    /\ step = IF clock_ascending THEN 1 ELSE MinusOne(variant)
    /\ clock_running = FALSE
    /\ start_stop_button_was_pressed = FALSE
    /\ swap_mode_button_was_pressed = FALSE
    /\ reset_button_was_pressed = FALSE
    /\ PINC = Buttons
    /\ PCIF = FALSE
    /\ TCCRB = ClearBits(TCCRB_INIT(variant), CS_BITS(variant))
    /\ TCNT \in 0 .. TIMER_TOP(variant)
    /\ OCF = FALSE
    /\ cmBlock = FALSE
    /\ InitMain /\ InitHist /\ InitOther

SwapPin ==
    /\ PinChange(SWAP_MODE)
    /\ UNCHANGED histVars
    /\ UNCHANGED otherVars

\* The first swap of a pair records the state it starts from.
SwapPinIsr ==
    /\ PCINT1_vect
    /\ IF SWAP_MODE \in Edges(PINC, WasPressed)
       THEN IF swapN = 1
            THEN swapN' = 2 /\ UNCHANGED swapFrom
            ELSE /\ swapN' = 1
                 /\ swapFrom' = [tcnt |-> TCNT, step |-> step,
                                 ascending |-> clock_ascending]
       ELSE UNCHANGED <<swapFrom, swapN>>
    /\ UNCHANGED <<acts, lastEdges, lastRead, lastTick, readHeld, sinceSwap>>
    /\ UNCHANGED otherVars

NextSwap == SwapPin \/ SwapPinIsr

SpecSwap == InitSwap /\ [][NextSwap]_vars

(***************************************************************************)
(* The display: the main loop, interleaved with the tick handler, the      *)
(* timer and the reset button (the two writers of `time`), from each value *)
(* of StartTimes and both directions.                                      *)
(***************************************************************************)
InitDisplay ==
    /\ variant \in Variants
    /\ loFirst \in (IF variant = "s" THEN {TRUE} ELSE BOOLEAN)
    /\ time \in StartTimes(variant)
    /\ clock_ascending \in BOOLEAN
    /\ step = IF clock_ascending THEN 1 ELSE MinusOne(variant)
    /\ clock_running = TRUE
    /\ start_stop_button_was_pressed = FALSE
    /\ swap_mode_button_was_pressed = FALSE
    /\ reset_button_was_pressed = FALSE
    /\ PINC = Buttons
    /\ PCIF = FALSE
    /\ TCCRB = TCCRB_INIT(variant)
    /\ TCNT = 0
    /\ OCF = FALSE
    /\ cmBlock = FALSE
    /\ InitMain /\ InitHist /\ InitOther

\* readHeld collects the values `time` holds from the first load of a read
\* to its last.
KeepButRead == UNCHANGED <<acts, lastEdges, lastRead, lastTick, swapFrom, swapN,
                           sinceSwap, otherVars>>
DuringRead == readHeld' = IF pc = "read2" THEN readHeld \cup {time'} ELSE readHeld

DRead == MainRead /\ readHeld' = {time} /\ KeepButRead
DRead2 == MainRead2 /\ UNCHANGED histVars /\ UNCHANGED otherVars
DPortB == MainPortB /\ readHeld' = {} /\ KeepButRead
DPortD == MainPortD /\ UNCHANGED histVars /\ UNCHANGED otherVars
DCount == TimerCount /\ UNCHANGED histVars /\ UNCHANGED otherVars
DMatch == TimerMatch /\ UNCHANGED histVars /\ UNCHANGED otherVars
DTickIsr == TIMER_COMPA_vect /\ DuringRead /\ KeepButRead
DPin == PinChange(RESET) /\ UNCHANGED histVars /\ UNCHANGED otherVars
DPinIsr == PCINT1_vect /\ DuringRead /\ KeepButRead

NextDisplay ==
    \/ DRead \/ DRead2 \/ DPortB \/ DPortD
    \/ DCount \/ DMatch \/ DTickIsr \/ DPin \/ DPinIsr

SpecDisplay == InitDisplay /\ [][NextDisplay]_vars

(***************************************************************************)
(* The swap-direction button with the timer running: a swap press is       *)
(* handled c timer clocks after a compare match, the counter holding c,    *)
(* and the timer is followed clock by clock to the next compare match.     *)
(* c is every value of [0, TOP] in the milliseconds clock and the values   *)
(* of Points in [0, TOP] in the seconds clock.                             *)
(***************************************************************************)
SwapCounts(v) == IF v = "ms" THEN 0 .. TIMER_TOP(v)
                 ELSE Points(v) \cap (0 .. TIMER_TOP(v))

InitCont ==
    /\ variant \in Variants
    /\ loFirst = TRUE
    /\ time = 0
    /\ clock_ascending \in BOOLEAN
    /\ step = IF clock_ascending THEN 1 ELSE MinusOne(variant)
    /\ clock_running = TRUE
    /\ start_stop_button_was_pressed = FALSE
    /\ swap_mode_button_was_pressed = FALSE
    /\ reset_button_was_pressed = FALSE
    /\ PINC = Buttons \ {SWAP_MODE}
    /\ PCIF = TRUE
    /\ TCCRB = TCCRB_INIT(variant)
    /\ TCNT \in SwapCounts(variant)
    /\ OCF = FALSE
    /\ cmBlock = FALSE
    /\ InitMain /\ InitHist /\ InitOther

KeepButSwap == UNCHANGED <<acts, lastEdges, lastRead, lastTick, readHeld, otherVars>>

CPinIsr ==
    /\ PCINT1_vect
    /\ swapFrom' = [tcnt |-> TCNT, step |-> step, ascending |-> clock_ascending]
    /\ swapN' = 1
    /\ sinceSwap' = 0
    /\ KeepButSwap
CStep ==
    /\ swapN = 1 /\ ~OCF
    /\ TimerStep
    /\ sinceSwap' = sinceSwap + 1
    /\ UNCHANGED <<swapFrom, swapN>> /\ KeepButSwap
COverflow ==
    /\ swapN = 1 /\ ~OCF
    /\ TimerOverflow
    /\ sinceSwap' = sinceSwap + 1
    /\ UNCHANGED <<swapFrom, swapN>> /\ KeepButSwap
CMatch ==
    /\ swapN = 1 /\ ~OCF
    /\ TimerMatch
    /\ sinceSwap' = sinceSwap + 1
    /\ UNCHANGED <<swapFrom, swapN>> /\ KeepButSwap

NextCont == CPinIsr \/ CStep \/ COverflow \/ CMatch

SpecCont == InitCont /\ [][NextCont]_vars

(***************************************************************************)
(* The two handlers statement by statement.  The hardware takes a request  *)
(* only while I is set and clears I when it enters the handler; both       *)
(* handlers are declared with ISR() and no ISR_NOBLOCK, and neither calls  *)
(* sei(), so I stays clear up to the handler's reti, which sets it.  Pins  *)
(* change and the timer counts at any time.                                *)
(***************************************************************************)
\* Mutant: the handlers are entered with interrupts enabled (ISR_NOBLOCK).
IsrEntryNoBlock == TRUE

\* I after the entry of a handler
IsrEntryI == FALSE

\* what the handlers read and write, the counter apart
Soft == [time |-> time, step |-> step, running |-> clock_running,
         ascending |-> clock_ascending, tccrb |-> TCCRB, was |-> WasPressed]

TickEnter ==
    /\ I /\ OCF /\ tpos = "idle"
    /\ I' = IsrEntryI
    /\ OCF' = FALSE
    /\ tpos' = "add"
    /\ UNCHANGED <<variant, loFirst, time, step, clock_running, clock_ascending,
                   start_stop_button_was_pressed, swap_mode_button_was_pressed,
                   reset_button_was_pressed, PINC, PCIF, TCCRB, TCNT, cmBlock>>
    /\ UNCHANGED <<ppos, acc, pressed>>
    /\ UNCHANGED mainVars

\* time += step: the loads and the addition
TickAdd ==
    /\ tpos = "add"
    /\ acc' = AddStep(variant, time, step)
    /\ tpos' = "store"
    /\ UNCHANGED progVars
    /\ UNCHANGED <<I, ppos, pressed>>
    /\ UNCHANGED mainVars

\* a statement of the tick handler that leaves t in `time`
TickStmt(pos, nxt, t) ==
    /\ tpos = pos
    /\ time' = t
    /\ tpos' = nxt
    /\ UNCHANGED <<variant, loFirst, step, clock_running, clock_ascending,
                   start_stop_button_was_pressed, swap_mode_button_was_pressed,
                   reset_button_was_pressed, PINC, PCIF, TCCRB, TCNT, OCF, cmBlock>>
    /\ UNCHANGED <<I, ppos, acc, pressed>>
    /\ UNCHANGED mainVars

\* time += step: the store
TickStore == TickStmt("store", "wrapup", acc)
TickWrapUp == TickStmt("wrapup", "wrapdown", WrapUp(variant, time))
TickWrapDown == TickStmt("wrapdown", "reti", WrapDown(variant, time))

\* reti sets I; the handler's locals are dead from here on
TickReti ==
    /\ tpos = "reti"
    /\ I' = TRUE
    /\ tpos' = "idle"
    /\ acc' = 0
    /\ UNCHANGED progVars
    /\ UNCHANGED <<ppos, pressed>>
    /\ UNCHANGED mainVars

PinEnter ==
    /\ I /\ PCIF /\ ppos = "idle"
    /\ I' = IsrEntryI
    /\ PCIF' = FALSE
    /\ ppos' = "read"
    /\ UNCHANGED <<variant, loFirst, time, step, clock_running, clock_ascending,
                   start_stop_button_was_pressed, swap_mode_button_was_pressed,
                   reset_button_was_pressed, PINC, TCCRB, TCNT, OCF, cmBlock>>
    /\ UNCHANGED <<tpos, acc, pressed>>
    /\ UNCHANGED mainVars

\* the three is_pressed locals
PinRead ==
    /\ ppos = "read"
    /\ pressed' = {b \in Buttons : IsPressed(PINC, b)}
    /\ ppos' = "startstop"
    /\ UNCHANGED progVars
    /\ UNCHANGED <<I, tpos, acc>>
    /\ UNCHANGED mainVars

\* is_pressed && !was_pressed, on the local is_pressed
Due(b) == b \in pressed /\ ~WasPressed[b]

\* one of the three if-blocks: it leaves the clock as c
PinBlock(pos, nxt, c) ==
    /\ ppos = pos
    /\ time' = c.time
    /\ step' = c.step
    /\ clock_running' = c.running
    /\ clock_ascending' = c.ascending
    /\ TCCRB' = c.tccrb
    /\ TCNT' = c.tcnt
    /\ cmBlock' = c.written
    /\ ppos' = nxt
    /\ UNCHANGED <<variant, loFirst, start_stop_button_was_pressed,
                   swap_mode_button_was_pressed, reset_button_was_pressed,
                   PINC, PCIF, OCF>>
    /\ UNCHANGED <<I, tpos, acc, pressed>>
    /\ UNCHANGED mainVars

PinStartStop ==
    PinBlock("startstop", "swap",
             IF Due(START_STOP) THEN StartStop(variant, Clock) ELSE Clock)
PinSwapMode ==
    PinBlock("swap", "reset",
             IF Due(SWAP_MODE) THEN SwapMode(variant, Clock) ELSE Clock)
PinReset ==
    PinBlock("reset", "save",
             IF Due(RESET) THEN Reset(variant, Clock) ELSE Clock)

\* was_pressed = is_pressed, for the three buttons
PinSave ==
    /\ ppos = "save"
    /\ start_stop_button_was_pressed' = (START_STOP \in pressed)
    /\ swap_mode_button_was_pressed' = (SWAP_MODE \in pressed)
    /\ reset_button_was_pressed' = (RESET \in pressed)
    /\ ppos' = "reti"
    /\ UNCHANGED <<variant, loFirst, time, step, clock_running, clock_ascending,
                   PINC, PCIF, TCCRB, TCNT, OCF, cmBlock>>
    /\ UNCHANGED <<I, tpos, acc, pressed>>
    /\ UNCHANGED mainVars

PinReti ==
    /\ ppos = "reti"
    /\ I' = TRUE
    /\ ppos' = "idle"
    /\ pressed' = {}
    /\ UNCHANGED progVars
    /\ UNCHANGED <<tpos, acc>>
    /\ UNCHANGED mainVars

\* tEntry and pEntry hold the state each running handler started from: the
\* tick handler at its entry, the pin-change handler when it read the pins.
KeepButIsr == UNCHANGED <<histVars, adcVars, serVars>>

\* The buttons whose actions write what the tick handler reads and writes.
FPin == (\E b \in {SWAP_MODE, RESET} : PinChange(b)) /\ UNCHANGED isrVars /\ KeepButIsr
FCount == TimerCount /\ UNCHANGED isrVars /\ KeepButIsr
FMatch == TimerMatch /\ UNCHANGED isrVars /\ KeepButIsr
FOverflow == TimerOverflow /\ UNCHANGED isrVars /\ KeepButIsr
FTickEnter == TickEnter /\ tEntry' = Soft /\ UNCHANGED pEntry /\ KeepButIsr
FTickAdd == TickAdd /\ UNCHANGED <<tEntry, pEntry>> /\ KeepButIsr
FTickStore == TickStore /\ UNCHANGED <<tEntry, pEntry>> /\ KeepButIsr
FTickWrapUp == TickWrapUp /\ UNCHANGED <<tEntry, pEntry>> /\ KeepButIsr
FTickWrapDown == TickWrapDown /\ UNCHANGED <<tEntry, pEntry>> /\ KeepButIsr
FTickReti == TickReti /\ tEntry' = NoEntry /\ UNCHANGED pEntry /\ KeepButIsr
FPinEnter == PinEnter /\ UNCHANGED <<tEntry, pEntry>> /\ KeepButIsr
FPinRead == PinRead /\ pEntry' = Soft /\ UNCHANGED tEntry /\ KeepButIsr
FPinStartStop == PinStartStop /\ UNCHANGED <<tEntry, pEntry>> /\ KeepButIsr
FPinSwapMode == PinSwapMode /\ UNCHANGED <<tEntry, pEntry>> /\ KeepButIsr
FPinReset == PinReset /\ UNCHANGED <<tEntry, pEntry>> /\ KeepButIsr
FPinSave == PinSave /\ UNCHANGED <<tEntry, pEntry>> /\ KeepButIsr
FPinReti == PinReti /\ pEntry' = NoEntry /\ UNCHANGED tEntry /\ KeepButIsr

NextAtomic ==
    \/ FPin \/ FCount \/ FMatch \/ FOverflow
    \/ FTickEnter \/ FTickAdd \/ FTickStore \/ FTickWrapUp \/ FTickWrapDown
    \/ FTickReti
    \/ FPinEnter \/ FPinRead \/ FPinStartStop \/ FPinSwapMode \/ FPinReset
    \/ FPinSave \/ FPinReti

SpecAtomic == Init /\ [][NextAtomic]_vars

(***************************************************************************)
(* The sampler: the Timer0 compare match, the conversion and the two       *)
(* handlers, in both builds, for MaxConv conversions.                      *)
(***************************************************************************)
clockVars == <<progVars, mainVars, histVars, isrVars, serVars>>

InitAdc ==
    /\ InitProg /\ variant = "s" /\ loFirst
    /\ InitMain /\ InitHist /\ InitIsr /\ InitSampler /\ InitSerial

AMatch ==
    /\ nconv < MaxConv
    /\ Timer0Match
    /\ UNCHANGED <<nconv, adcSeed>> /\ UNCHANGED clockVars
ATimerIsr == TIMER0_COMPA_vect /\ UNCHANGED <<nconv, adcSeed>> /\ UNCHANGED clockVars
AComplete ==
    /\ AdcComplete(Sample(adcSeed, nconv))
    /\ UNCHANGED <<nconv, adcSeed>> /\ UNCHANGED clockVars
AAdcIsr ==
    /\ ADC_vect
    /\ nconv' = nconv + 1
    /\ UNCHANGED adcSeed /\ UNCHANGED clockVars

NextAdc == AMatch \/ ATimerIsr \/ AComplete \/ AAdcIsr

SpecAdc == InitAdc /\ [][NextAdc]_vars

(***************************************************************************)
(* The serial sampler: the timer, the ADC, the receiver, the three         *)
(* handlers and the main loop, for MaxSerConv conversions, in both orders  *)
(* of the two loads of `sample`.                                           *)
(***************************************************************************)
\* Conversions followed from power-on: the results pass 255, where the two
\* bytes of `sample` both change.
MaxSerConv == 8

InitSer ==
    /\ InitProg /\ variant = "s"
    /\ InitMain /\ InitHist /\ InitIsr
    /\ InitSampler /\ adcProg = "auto" /\ adcSeed \in {0, 3}
    /\ InitSerial

KeepClock == UNCHANGED <<progVars, mainVars, histVars, isrVars>>
KeepSerHist == UNCHANGED <<nconv, adcSeed, serHist>>

SMatch == nconv < MaxSerConv /\ Timer0Match /\ UNCHANGED serProg /\ KeepSerHist /\ KeepClock
STimerIsr == TIMER0_COMPA_vect /\ UNCHANGED serProg /\ KeepSerHist /\ KeepClock
SComplete ==
    /\ AdcComplete(Sample(adcSeed, nconv))
    /\ UNCHANGED serProg /\ KeepSerHist /\ KeepClock
\* sheld collects the values `sample` holds from the first load of a read
\* to its last.
SAdcIsr ==
    /\ ADC_vect_t5
    /\ nconv' = nconv + 1
    /\ sheld' = IF spc = "read2" THEN sheld \cup {sample'} ELSE sheld
    /\ UNCHANGED <<adcSeed, sentNow, sentPrev, stopped, afterStop>>
    /\ KeepClock
SReceive == (\E b \in RxBytes : Receive(b)) /\ KeepSerHist /\ KeepClock
\* '0' handled after a '1' or after power-on starts a new count of lines.
SRxIsr ==
    /\ USART_RX_vect
    /\ stopped' = (IF UDR0 = 48 THEN TRUE ELSE IF UDR0 = 49 THEN FALSE ELSE stopped)
    /\ afterStop' = (IF UDR0 = 48 /\ ~stopped THEN 0 ELSE afterStop)
    /\ UNCHANGED <<nconv, adcSeed, sheld, sentNow, sentPrev>>
    /\ KeepClock
SPoll == SerPoll /\ KeepSerHist /\ KeepClock
STest == SerTest /\ KeepSerHist /\ KeepClock
SClear == SerClear /\ KeepSerHist /\ KeepClock
SRead ==
    /\ SerRead
    /\ sheld' = {sample}
    /\ UNCHANGED <<nconv, adcSeed, sentNow, sentPrev, stopped, afterStop>>
    /\ KeepClock
\* The line is that of the last conversion stored when the read ends.
SRead2 ==
    /\ SerRead2
    /\ sentPrev' = sentNow
    /\ sentNow' = nconv - 1
    /\ UNCHANGED <<nconv, adcSeed, sheld, stopped, afterStop>>
    /\ KeepClock
SSend ==
    /\ SerSend
    /\ afterStop' = (IF stopped THEN afterStop + 1 ELSE afterStop)
    /\ sheld' = {}
    /\ UNCHANGED <<nconv, adcSeed, sentNow, sentPrev, stopped>>
    /\ KeepClock

NextSer ==
    \/ SMatch \/ STimerIsr \/ SComplete \/ SAdcIsr \/ SReceive \/ SRxIsr
    \/ SPoll \/ STest \/ SClear \/ SRead \/ SRead2 \/ SSend

SpecSer == InitSer /\ [][NextSer]_vars

(***************************************************************************)
(* Checked properties.                                                     *)
(***************************************************************************)

\* C1: outside the handlers `time` is always in [0, LIMIT), LIMIT = 60 in
\* the seconds clock and 60000 in the milliseconds clock, after any ticks
\* and start/stop, swap-direction and reset presses from power-on.
C1_TimeInRange == time \in 0 .. LIMIT(variant) - 1

\* C1 witness: the clock has counted down through 0 to LIMIT - 1 and was
\* then stopped.
C1_Witness ==
    /\ time = LIMIT(variant) - 1
    /\ step = MinusOne(variant)
    /\ ~clock_running

\* C2: a run of the tick handler with step = +1 on a `time` in [0, LIMIT)
\* leaves (time + 1) mod LIMIT, in both variants; LIMIT - 1 becomes 0.
C2_AscendingTick ==
    (lastTick.step = 1 /\ lastTick.from \in 0 .. LIMIT(variant) - 1) =>
        /\ time = (lastTick.from + 1) % LIMIT(variant)
        /\ lastTick.from = LIMIT(variant) - 1 => time = 0

\* C2 witness: the handler ran on LIMIT - 1 of the milliseconds clock.
C2_Witness ==
    /\ variant = "ms"
    /\ lastTick.step = 1
    /\ lastTick.from = 59999
    /\ time = 0

\* C3: a run of the tick handler with step = -1 (all ones in the unsigned
\* type) on a `time` in [0, LIMIT) leaves (time - 1 + LIMIT) mod LIMIT; from
\* 0 the sum is the type's maximum and `time` is then set to LIMIT - 1.
C3_DescendingTick ==
    (lastTick.step = MinusOne(variant) /\ lastTick.from \in 0 .. LIMIT(variant) - 1) =>
        /\ lastTick.step = 2^TimeBits(variant) - 1
        /\ time = (lastTick.from - 1 + LIMIT(variant)) % LIMIT(variant)
        /\ lastTick.from = 0 =>
              /\ lastTick.sum = (IF variant = "s" THEN 255 ELSE 65535)
              /\ time = LIMIT(variant) - 1

\* C3 witness: the handler ran on 0 of the seconds clock, counting down.
C3_Witness ==
    /\ variant = "s"
    /\ lastTick.step = 255
    /\ lastTick.from = 0
    /\ lastTick.sum = 255
    /\ time = 59

\* C4: the value the main loop reads from `time` is never torn: it is a
\* value `time` held at some instant of the read, in both variants.
C4_NoTornRead == pc = "portb" => raw \in readHeld

\* C5: handling a start/stop press while running leaves running = false,
\* and from then on no run of the tick handler changes `time` while
\* running = false, whatever compare match was requested before the press
\* was handled.
C5_StoppedClockFrozen ==
    [][/\ (PCINT1_vect /\ clock_running /\ Edge(PINC, WasPressed, START_STOP))
            => ~clock_running'
       /\ (TIMER_COMPA_vect /\ ~clock_running) => time' = time]_vars

\* What a run of the pin-change handler leaves alone when it performs no
\* action for button b (the counter register is shared by swap and reset).
NoAction(b) ==
    IF b = START_STOP THEN clock_running' = clock_running /\ TCCRB' = TCCRB
    ELSE IF b = SWAP_MODE
    THEN /\ step' = step /\ clock_ascending' = clock_ascending
         /\ TCNT' = TCNT \/ Edge(PINC, WasPressed, RESET)
    ELSE /\ time' = time
         /\ TCNT' = TCNT \/ Edge(PINC, WasPressed, SWAP_MODE)

\* What a run of the pin-change handler does when it performs the action of
\* button b.
Performed(b) ==
    IF b = START_STOP THEN clock_running' = ~clock_running
    ELSE IF b = SWAP_MODE
    THEN clock_ascending' = ~clock_ascending /\ step' # step
    ELSE time' = 0 /\ TCNT' = 0

\* C6: of two consecutive runs of the pin-change handler that both read a
\* button as pressed, the second performs no action for that button, for
\* each of start/stop, swap-direction and reset.
C6_HeldNoRepeat ==
    [][PCINT1_vect =>
         \A b \in Buttons :
            (b \in lastRead /\ IsPressed(PINC, b)) =>
                NoAction(b) /\ acts'[b] = acts[b] /\ acts'[b] <= 1]_vars

\* C6 witness: the handler, called for an edge of another button, has read
\* again a button whose action it performed earlier in the same press.
C6_Witness ==
    \E b \in Buttons :
        /\ IsPressed(PINC, b)
        /\ b \in lastRead
        /\ acts[b] = 1
        /\ b \notin lastEdges
        /\ lastEdges # {}

\* C7 as stated: each physical press causes its button's action exactly
\* once, so a press that ends has had its action performed once.
C7_ExactlyOncePerPress ==
    [][\A b \in Buttons : (PinChange(b) /\ IsPressed(PINC, b)) => acts[b] = 1]_vars

\* C7 amended: each physical press causes its button's action at most
\* once, and exactly once when a run of the handler reads the pin as
\* pressed while the snapshot holds it as not pressed.
C7_AtMostOncePerPress ==
    /\ [](\A b \in Buttons : acts[b] <= 1)
    /\ [][PCINT1_vect =>
            \A b \in Buttons :
               (IsPressed(PINC, b) /\ ~WasPressed[b]) =>
                   acts[b] = 0 /\ acts'[b] = 1 /\ Performed(b)]_vars

\* C7 witness: the swap-direction button is down and its action was
\* performed once for this press.
C7_Witness ==
    /\ IsPressed(PINC, SWAP_MODE)
    /\ acts[SWAP_MODE] = 1
    /\ ~clock_ascending

\* C8: two swap-direction presses handled in succession, with no timer
\* clock and no tick between them, restore the hardware counter, `step`
\* and `ascending`, for every counter value in [0, TOP] and both directions.
C8_SwapRoundTrip ==
    swapN = 2 =>
        /\ TCNT = swapFrom.tcnt
        /\ step = swapFrom.step
        /\ clock_ascending = swapFrom.ascending

\* C8 witness: the second swap of a pair was handled, from counter value
\* TOP of the seconds clock counting down.
C8_Witness ==
    /\ swapN = 2
    /\ variant = "s"
    /\ swapFrom = [tcnt |-> 15624, step |-> 255, ascending |-> FALSE]
    /\ TCNT = 15624

\* C9: a run of the pin-change handler that detects a reset press ends with
\* time = 0 and the hardware counter = 0, whatever the state before and
\* whatever other presses it detects.
C9_ResetClears ==
    [][(PCINT1_vect /\ Edge(PINC, WasPressed, RESET)) => (time' = 0 /\ TCNT' = 0)]_vars

\* C9 witness: the handler has just detected the three presses at once,
\* with the clock stopped by it, and left time = 0 and the counter = 0.
C9_Witness ==
    /\ lastEdges = Buttons
    /\ acts = [b \in Buttons |-> 1]
    /\ ~PCIF
    /\ cmBlock
    /\ ~clock_running
    /\ time = 0
    /\ TCNT = 0

\* C10: each iteration of the main loop writes digits[d mod 10] to PORTB
\* and digits[d div 10] to PORTD, d being the value read from `time` in the
\* seconds clock and that value div 1000 in the milliseconds clock; d = 7
\* gives 0x07 and 0x3F.  (PORTD is 0 until the first iteration ends.)
C10_DisplayMapping ==
    /\ pc \in {"portb", "portd"} \/ PORTD # 0 =>
          current_time = (IF variant = "s" THEN raw ELSE raw \div 1000)
    /\ pc = "portd" => PORTB = digits[(current_time % 10) + 1]
    /\ (pc = "read" /\ PORTD # 0) =>
          /\ PORTB = digits[(current_time % 10) + 1]
          /\ PORTD = digits[(current_time \div 10) + 1]
          /\ current_time = 7 => (PORTB = 7 /\ PORTD = 63)
    /\ digits = <<63, 6, 91, 79, 102, 109, 125, 7, 127, 103>>

\* C10 witness: the milliseconds clock has shown 7 seconds.
C10_Witness ==
    /\ variant = "ms"
    /\ pc = "read"
    /\ raw \in 7000 .. 7999
    /\ current_time = 7
    /\ PORTB = 7
    /\ PORTD = 63

\* The swap handled from counter value swapFrom.tcnt left TOP minus that
\* value in the counter and flipped `step` and `ascending`.
Swapped ==
    swapN = 1 =>
        /\ sinceSwap = 0 => TCNT = TIMER_TOP(variant) - swapFrom.tcnt
        /\ step = (IF swapFrom.step = 1 THEN 2^TimeBits(variant) - 1 ELSE 1)
        /\ clock_ascending = ~swapFrom.ascending
        /\ clock_ascending <=> step = 1

\* C11 as stated: a swap press replaces the counter value c by TOP - c and
\* flips `step` and `ascending`; the number of timer counts from the swap
\* to the next compare match equals the number of counts elapsed from the
\* last compare match to the swap, which is c.
C11_CountsPreserved ==
    /\ Swapped
    /\ (swapN = 1 /\ OCF) => sinceSwap = swapFrom.tcnt

\* C11 amended: the swap replaces c by TOP - c and flips `step` and
\* `ascending`; the next compare match comes c + 1 timer counts after the
\* swap when c >= 1, one count more than had elapsed; when c = 0 the
\* handler writes TOP, the compare match of the next timer clock is
\* blocked, and the match comes 2^w + 1 counts after the swap (w the
\* width of the counter).
C11_CountsPlusOne ==
    /\ Swapped
    /\ (swapN = 1 /\ OCF) =>
          sinceSwap = (IF swapFrom.tcnt = 0 THEN 2^TimerBits(variant) + 1
                       ELSE swapFrom.tcnt + 1)

\* C11 witness: the milliseconds clock was reversed 3 counts after a
\* compare match and reached the next one 4 counts later.
C11_Witness ==
    /\ variant = "ms"
    /\ swapN = 1
    /\ swapFrom = [tcnt |-> 3, step |-> 1, ascending |-> TRUE]
    /\ OCF
    /\ TCNT = 0
    /\ sinceSwap = 4

\* C12: outside the handlers `running` mirrors the timer's clock-select
\* bits: running = true exactly when they hold the prescaler set at startup
\* (TCCR1B = 0b00001011, TCCR0B = 0b00000010), running = false exactly when
\* they are all zero; a stop followed by a start restores the register.
C12_RunningMirrorsTimer ==
    /\ clock_running <=> TCCRB % 8 = TCCRB_INIT(variant) % 8
    /\ ~clock_running <=> TCCRB % 8 = 0
    /\ clock_running => TCCRB = (IF variant = "s" THEN 11 ELSE 2)
    /\ clock_running <=> TimerOn

\* C12 witness: the seconds clock was stopped and has just been started
\* again by a start/stop press.
C12_Witness ==
    /\ variant = "s"
    /\ lastEdges = {START_STOP}
    /\ acts[START_STOP] = 1
    /\ clock_running
    /\ TCCRB = 11
    /\ time = 1

\* C13: `ascending` mirrors the sign of `step`: ascending = true exactly
\* when step = +1, ascending = false exactly when step = -1 (all ones in
\* the unsigned type), and `step` takes no other value.
C13_AscendingMirrorsStep ==
    /\ step \in {1, 2^TimeBits(variant) - 1}
    /\ clock_ascending <=> step = 1
    /\ ~clock_ascending <=> step = 2^TimeBits(variant) - 1

\* C13 witness: the milliseconds clock counts up again after having
\* counted down, the swap-direction button still held.
C13_Witness ==
    /\ variant = "ms"
    /\ lastEdges = {}
    /\ SWAP_MODE \in lastRead
    /\ clock_ascending
    /\ step = 1
    /\ time = LIMIT(variant) - 1

\* C14: a run of the tick handler (the step that takes the compare-match
\* request) changes only `time`: it leaves `step`, `running`, `ascending`,
\* the three snapshots, the timer control register and the display ports
\* unchanged.
C14_TickChangesOnlyTime ==
    [][(OCF /\ ~OCF') =>
         UNCHANGED <<step, clock_running, clock_ascending,
                     start_stop_button_was_pressed, swap_mode_button_was_pressed,
                     reset_button_was_pressed, TCCRB, PORTB, PORTD>>]_vars

\* C14 witness: the tick handler has run on 0 while the clock counted down
\* with the swap-direction button held.
C14_Witness ==
    /\ time = LIMIT(variant) - 1
    /\ ~OCF
    /\ ~clock_ascending
    /\ step = MinusOne(variant)
    /\ swap_mode_button_was_pressed
    /\ lastEdges = {SWAP_MODE}

\* C15: a run of the pin-change handler (the step that takes the
\* pin-change request) changes, besides the snapshots, only what the
\* actions of the buttons with a press edge change: without a start/stop
\* edge `running` and the control register are unchanged, without a swap
\* edge `step` and `ascending`, without a reset edge `time`, without a
\* swap or reset edge the hardware counter; with no edge at all nothing
\* but the snapshots changes.
C15_ButtonFrames ==
    [][(PCIF /\ ~PCIF') =>
         LET e == {b \in Buttons : IsPressed(PINC, b) /\ ~WasPressed[b]}
         IN  /\ START_STOP \notin e => UNCHANGED <<clock_running, TCCRB>>
             /\ SWAP_MODE \notin e => UNCHANGED <<step, clock_ascending>>
             /\ RESET \notin e => UNCHANGED time
             /\ (SWAP_MODE \notin e /\ RESET \notin e) => UNCHANGED TCNT
             /\ e = {} => UNCHANGED <<time, step, clock_running, clock_ascending,
                                      TCCRB, TCNT, cmBlock, OCF, PINC, PORTB, PORTD>>]_vars

\* C15 witness: a start/stop press alone has just stopped the clock, with
\* the counter at TOP and `time` at 1.
C15_Witness ==
    /\ lastEdges = {START_STOP}
    /\ ~PCIF
    /\ ~clock_running
    /\ TCNT = TIMER_TOP(variant)
    /\ time = 1

\* C16: a run of the pin-change handler performs the action of exactly the
\* buttons that read pressed now and not pressed in their snapshot, in the
\* order start/stop, swap-direction, reset, for every combination of pin
\* levels and snapshots, and leaves every snapshot equal to the level read.
C16_ButtonsIndependent ==
    [][(PCIF /\ ~PCIF') =>
         LET now == [b \in Buttons |-> b \notin PINC]
             e == [b \in Buttons |-> now[b] /\ ~WasPressed[b]]
         IN  /\ clock_running' = (IF e[START_STOP] THEN ~clock_running ELSE clock_running)
             /\ TCCRB' = (IF ~e[START_STOP] THEN TCCRB
                          ELSE IF variant = "s"
                               THEN (IF clock_running THEN 8 ELSE 11)
                               ELSE (IF clock_running THEN 0 ELSE 2))
             /\ clock_ascending' = (IF e[SWAP_MODE] THEN ~clock_ascending ELSE clock_ascending)
             /\ step' = (IF ~e[SWAP_MODE] THEN step
                         ELSE IF clock_ascending THEN 2^TimeBits(variant) - 1 ELSE 1)
             /\ time' = (IF e[RESET] THEN 0 ELSE time)
             /\ TCNT' = (IF e[RESET] THEN 0
                         ELSE IF e[SWAP_MODE]
                              THEN (TIMER_TOP(variant) - TCNT) % 2^TimerBits(variant)
                              ELSE TCNT)
             /\ start_stop_button_was_pressed' = now[START_STOP]
             /\ swap_mode_button_was_pressed' = now[SWAP_MODE]
             /\ reset_button_was_pressed' = now[RESET]]_vars

\* C16 witness: with the swap-direction button held from before, the
\* handler has detected a start/stop and a reset press in one run.
C16_Witness ==
    /\ lastEdges = {START_STOP, RESET}
    /\ lastRead = Buttons
    /\ ~PCIF
    /\ start_stop_button_was_pressed
    /\ swap_mode_button_was_pressed
    /\ reset_button_was_pressed
    /\ time = 0
    /\ TCNT = 0
    /\ ~clock_ascending

\* What the tick handler, run as one step from the state e, leaves.
TickResult(e) == [e EXCEPT !.time = TickTime(variant, e.time, e.step)]
\* What the pin-change handler, run as one step from the state e with the
\* buttons of p read as pressed, leaves.
PinResult(e, p) ==
    LET c == Handle(variant, {b \in p : ~e.was[b]},
                    [time |-> e.time, step |-> e.step, running |-> e.running,
                     ascending |-> e.ascending, tccrb |-> e.tccrb, tcnt |-> 0,
                     written |-> FALSE])
    IN  [time |-> c.time, step |-> c.step, running |-> c.running,
         ascending |-> c.ascending, tccrb |-> c.tccrb,
         was |-> [b \in Buttons |-> b \in p]]

\* C17: the tick handler and the pin-change handler never interleave their
\* statements: interrupts are disabled while either runs, each runs to
\* completion, and what each leaves is what it leaves when run as one
\* step, so that every state is the result of a serial order of handler
\* runs (no update of `time` by a tick or a reset is lost).
C17_HandlersSerial ==
    /\ ~(tpos # "idle" /\ ppos # "idle")
    /\ (tpos # "idle" \/ ppos # "idle") => ~I
    /\ tpos = "reti" => Soft = TickResult(tEntry)
    /\ ppos = "reti" => Soft = PinResult(pEntry, pressed)

\* C17 witness: a compare match was requested while the pin-change handler
\* performed a reset on a nonzero `time`, and waits for the handler to end.
C17_Witness ==
    /\ ppos = "reti"
    /\ ~I
    /\ OCF
    /\ RESET \in pressed
    /\ ~pEntry.was[RESET]
    /\ pEntry.time = 1
    /\ time = 0

\* C18: the two-digit value displayed is always in 00..59: in every
\* iteration of the main loop, in both variants and every interleaving with
\* the handlers, the value split in digits is at most 59, the tens index is
\* in 0..5 and the ones index in 0..9, both lookups are inside the 10-entry
\* table, and the tens port never shows 6 or more.
C18_DisplayInRange ==
    /\ pc \in {"portb", "portd"} =>
          /\ current_time \in 0 .. 59
          /\ Ones(current_time) \in 0 .. 9
          /\ Tens(current_time) \in 0 .. 5
          /\ Ones(current_time) + 1 \in DOMAIN digits
          /\ Tens(current_time) + 1 \in DOMAIN digits
    /\ PORTB \in {0} \cup {digits[i] : i \in 1 .. 10}
    /\ PORTD \in {0} \cup {digits[i] : i \in 1 .. 6}

\* C19: the hardware counter stays in [0, TOP] (TOP = 15624 in the seconds
\* clock, 124 in the milliseconds clock) in every state, after any timer
\* counts, compare-match clears, swap remaps and resets, so that the remap
\* TOP - counter never underflows.
C19_CounterInRange ==
    /\ TCNT \in 0 .. TIMER_TOP(variant)
    /\ TIMER_TOP(variant) - TCNT >= 0

\* C20: after any number of ADC-complete interrupts current_sample is in
\* [0, SAMPLES_NUMBER), so every write is inside the array; the k-th
\* conversion result (k from 0) is stored in slot k mod SAMPLES_NUMBER; the
\* index advances by one per conversion and wraps from 19 to 0.
C20_RingBuffer ==
    /\ current_sample \in 0 .. SAMPLES_NUMBER - 1
    /\ current_sample = nconv % SAMPLES_NUMBER
    /\ DOMAIN samples = 1 .. SAMPLES_NUMBER
    /\ \A k \in 0 .. nconv - 1 :
          k >= nconv - SAMPLES_NUMBER =>
              samples[(k % SAMPLES_NUMBER) + 1] = Sample(adcSeed, k)
    /\ \A j \in nconv .. SAMPLES_NUMBER - 1 : samples[j + 1] = 0

\* C20 witness: the auto-triggered sampler has stored its 41st result, the
\* index having wrapped twice.
C20_Witness ==
    /\ adcProg = "auto"
    /\ adcSeed = 3
    /\ nconv = 41
    /\ current_sample = 1
    /\ samples[1] = Sample(3, 40)
    /\ samples[20] = Sample(3, 39)
    /\ samples[2] = Sample(3, 21)

\* C21: no conversion result is sent more than once: in every interleaving
\* of the ADC handler with the main loop, the line about to be sent is that
\* of another conversion than the line before, and the value sent is a
\* value `sample` held during the read (the 16-bit read is not torn).
C21_EachSampleOnce ==
    spc = "send" =>
        /\ sentNow # sentPrev
        /\ cur_sample \in sheld

\* A run of the receive handler (the step that takes the receive request)
\* sets should_transmit to false for '0', to true for '1', and leaves it
\* for any other byte.
RxDispatch ==
    [][(RXC /\ ~RXC') =>
         should_transmit' = (IF UDR0 = 48 THEN FALSE
                             ELSE IF UDR0 = 49 THEN TRUE
                             ELSE should_transmit)]_vars

\* C22 as stated: '0' sets should_transmit to false, '1' to true, any other
\* byte leaves it; it is false at startup; a sample line is started only
\* when should_transmit is true, so that once '0' has been handled no line
\* is started until '1' is.
C22_NoLineAfterStop ==
    /\ RxDispatch
    /\ ~should_transmit
    /\ [][(spc = "send" /\ spc' = "poll") => should_transmit]_vars
    /\ [](stopped => afterStop = 0)

\* C22 amended: the dispatch and the startup value as stated; the main loop
\* leaves its test of should_transmit for the rest of an iteration only
\* when it reads true, so that once '0' has been handled at most one line
\* is started until '1' is, the line of the iteration under way, and none
\* once the main loop is back at the test.
C22_OneLineAfterStop ==
    /\ RxDispatch
    /\ ~should_transmit
    /\ [][(spc = "poll" /\ spc' # "poll") => should_transmit]_vars
    /\ [](stopped => afterStop <= 1)
    /\ []((stopped /\ spc = "poll") => ~should_transmit)

\* C22 witness: a line was started after '0' was handled, and the main
\* loop is back at the test with the transmission off.
C22_Witness ==
    /\ stopped
    /\ afterStop = 1
    /\ ~should_transmit
    /\ spc = "poll"
    /\ Len(line) = 6
    /\ UDR0 = 50

=============================================================================
